---- MODULE Spec2Model ----
(***************************************************************************)
(* The scheduled form-submission pipeline of main.py and get_field_id.py:  *)
(* configuration reading, concurrent preparation, the scheduler wait, the  *)
(* concurrent submission, the summary and the notification.                *)
(*                                                                         *)
(* Time is counted in milliseconds from Monday 00:00:00.000 of week 0.     *)
(* Strings of the program are kept abstract: a label is named by the       *)
(* keywords it contains, a reason text by its character counts.            *)
(***************************************************************************)
EXTENDS Integers, Sequences, FiniteSets, TLC

\* ------------------------------------------------------------------ bounds

\* The largest number of day entries on the second line of the configuration.
MaxDays == 2

\* ------------------------------------------------------------ Python values

\* Every value that can stand where None can is a record with a status.
None == [status |-> "None"]

\* The outcome of a call that ended in an exception no handler of the callee
\* caught: the exception leaves the callee.
Raised(exc) == [status |-> "raised", exc |-> exc]

IsRaised(v) == v.status = "raised"

\* ------------------------------------------------------------- main.py data

\* DAY_MAP: the day characters of the configuration and their numbers.
DAY_MAP == [c \in {"mon", "tue", "wed", "thu", "fri", "sat", "sun"} |->
             CASE c = "mon" -> 1 [] c = "tue" -> 2 [] c = "wed" -> 3
               [] c = "thu" -> 4 [] c = "fri" -> 5 [] c = "sat" -> 6
               [] c = "sun" -> 7]

\* DAY_NAMES[d]: the display name of day d (index 0 is the empty name).
DAY_NAMES(d) == <<"", "Mon", "Tue", "Wed", "Thu", "Fri", "Sat", "Sun">>[d + 1]

\* A reason text after strip(): chars characters that are not blank, and
\* spaces blanks (space, tab, newline) between them.
ReasonText(c, s) == [status |-> "text", chars |-> c, spaces |-> s]

\* len(reason): the length of the stripped text; "not reason" is len = 0.
ReasonLen(r) == r.chars + r.spaces

\* char_count that counts the blanks inside the text as well.
mut_char_count(r) == r.chars + r.spaces

\* reason.replace(' ', '').replace('\t', '').replace('\n', '') and its len.
char_count(r) == r.chars

\* sorted(days): insertion of each element into the sorted prefix.
RECURSIVE Insert(_, _)
Insert(x, s) ==
    IF s = <<>> THEN <<x>>
    ELSE IF x <= Head(s) THEN <<x>> \o s
    ELSE <<Head(s)>> \o Insert(x, Tail(s))

RECURSIVE sorted(_)
sorted(s) == IF s = <<>> THEN <<>> ELSE Insert(Head(s), sorted(Tail(s)))

\* "x in days" for a Python list.
InList(x, s) == \E i \in 1..Len(s) : s[i] = x

\* read_config_file: file is the content of data.txt (or its absence); the
\* result is None or the configuration with the days sorted.
read_config_file(file) ==
    IF file.kind # "ok" THEN None
    ELSE IF file.name = "" THEN None
    ELSE IF \E i \in 1..Len(file.day_chars) : file.day_chars[i] \notin DOMAIN DAY_MAP
         THEN None
    ELSE IF file.day_chars = <<>> THEN None
    ELSE [status |-> "config",
          name |-> file.name,
          days |-> sorted([i \in 1..Len(file.day_chars) |-> DAY_MAP[file.day_chars[i]]]),
          reason_sat |-> file.reason_sat,
          reason_sun |-> file.reason_sun]

\* The least number of non-blank characters of a Saturday or Sunday reason.
MinReasonChars == 15

\* validate_config.
validate_config(config) ==
    LET sat_ok == ~InList(6, config.days)
                  \/ (ReasonLen(config.reason_sat) # 0
                      /\ ~(char_count(config.reason_sat) < MinReasonChars))
        sun_ok == ~InList(7, config.days)
                  \/ (ReasonLen(config.reason_sun) # 0
                      /\ ~(char_count(config.reason_sun) < MinReasonChars))
    IN sat_ok /\ sun_ok

\* ------------------------------------------------------ Python dictionaries

\* A dict is the sequence of its <<key, value>> items in insertion order.
DictHas(d, k) == \E i \in 1..Len(d) : d[i][1] = k

\* d[k] = v: an existing key keeps its place and takes the new value.
DictSet(d, k, v) ==
    IF DictHas(d, k)
    THEN [i \in 1..Len(d) |-> IF d[i][1] = k THEN <<k, v>> ELSE d[i]]
    ELSE Append(d, <<k, v>>)

RECURSIVE DictUpdate(_, _)
DictUpdate(d, e) ==
    IF e = <<>> THEN d ELSE DictUpdate(DictSet(d, Head(e)[1], Head(e)[2]), Tail(e))

\* ------------------------------------------------------------ get_field_id.py

\* The URL of a form page: the view page of a slot, or (after the
\* replacement of '/viewform' by '/formResponse') its response endpoint.
FormUrl(path, slot, mode) == [status |-> "url", path |-> path, slot |-> slot, mode |-> mode]

\* The number of weekday slots a short-URL list is expected to hold.
NumSlots == 7

\* resolve_short_url: env is what the file system and the network answer:
\* file_ok and n_urls for the list file, get for the one GET
\* ("neterror", "nolocation" or "location").
resolve_short_url(day_number, mode, env) ==
    IF day_number < 1 \/ day_number > NumSlots THEN None
    ELSE IF ~env.file_ok THEN None
    ELSE IF day_number > env.n_urls THEN None
    ELSE IF env.get = "neterror" THEN None
    ELSE IF env.get = "nolocation" THEN None
    ELSE FormUrl("viewform", day_number, mode)

\* f"entry.{entry_id}".
Entry(id) == [status |-> "entry", id |-> id]

\* "keyword in label": the keywords each label text contains.
Contains(kw, text) ==
    CASE text = "name" -> kw = "name"
      [] text = "option" -> kw = "option"
      [] text = "reason" -> kw = "reason"
      [] text = "name_reason" -> kw \in {"name", "reason"}
      [] OTHER -> FALSE

\* A lookup that tries the first item of entry_map only.
mut_FirstMatch(items, kw) ==
    IF items = <<>> THEN None
    ELSE IF Head(items)[1] = "null" THEN Raised("TypeError")
    ELSE IF Contains(kw, Head(items)[1]) THEN Head(items)[2]
    ELSE None

\* next((v for k, v in entry_map.items() if kw in k), None): the label of a
\* question may be null in the metadata, and "kw in None" is a TypeError.
RECURSIVE FirstMatch(_, _)
FirstMatch(items, kw) ==
    IF items = <<>> THEN None
    ELSE IF Head(items)[1] = "null" THEN Raised("TypeError")
    ELSE IF Contains(kw, Head(items)[1]) THEN Head(items)[2]
    ELSE FirstMatch(Tail(items), kw)

\* The loop over the question records: entry_map, or the first exception.
\* A question is [text, entry]; entry is an identifier, -1 for a null on
\* the path question[4][0][0] (TypeError) or -2 for a missing index
\* (IndexError).
RECURSIVE BuildEntryMap(_, _)
BuildEntryMap(questions, entry_map) ==
    IF questions = <<>> THEN [status |-> "map", items |-> entry_map]
    ELSE LET q == Head(questions)
         IN IF q.entry = -1 THEN Raised("TypeError")
            ELSE IF q.entry = -2 THEN Raised("IndexError")
            ELSE BuildEntryMap(Tail(questions), DictSet(entry_map, q.text, Entry(q.entry)))

Entries(n, o, r) == [status |-> "entries", name_entry |-> n, option_entry |-> o, reason_entry |-> r]

\* The exceptions the second handler of fetch_form_entry_ids_for_day names
\* (requests' own errors are caught by the first).
CaughtByDiscovery == {"AttributeError", "IndexError", "JSONDecodeError"}

\* fetch_form_entry_ids_for_day: page is the answer to the GET of the form
\* page: kind "neterror", "nostruct" (no FB_PUBLIC_LOAD_DATA_), "badjson",
\* or "json" with top the shape of form_data on the path [1][1] ("null" is a
\* TypeError, "short" an IndexError, "list" the question list).
fetch_form_entry_ids_for_day(form_url, day_number, page) ==
    LET need_reason == day_number >= 6
        absent == Entries(None, None, None)
        handled(exc) == IF exc \in CaughtByDiscovery THEN absent ELSE Raised(exc)
    IN IF page.kind \in {"neterror", "nostruct"} THEN absent
       ELSE IF page.kind = "badjson" THEN handled("JSONDecodeError")
       ELSE IF page.top = "null" THEN handled("TypeError")
       ELSE IF page.top = "short" THEN handled("IndexError")
       ELSE LET built == BuildEntryMap(page.questions, <<>>)
            IN IF IsRaised(built) THEN handled(built.exc)
               ELSE LET name_entry == FirstMatch(built.items, "name")
                        option_entry == FirstMatch(built.items, "option")
                        reason_entry == IF need_reason
                                        THEN FirstMatch(built.items, "reason")
                                        ELSE None
                    IN IF IsRaised(name_entry) THEN handled(name_entry.exc)
                       ELSE IF IsRaised(option_entry) THEN handled(option_entry.exc)
                       ELSE IF IsRaised(reason_entry) THEN handled(reason_entry.exc)
                       ELSE Entries(name_entry, option_entry, reason_entry)

\* ------------------------------------------------- main.py: the two workers

\* A string value of the payload other than a reason text.
Str(text) == [status |-> "str", text |-> text]

\* "if reason": a reason that was given and is not the empty text.
Truthy(reason) == reason.status # "None" /\ ReasonLen(reason) # 0

\* prepare_submission_data that asks for the reason identifier on every day.
mut_prepare_submission_data_strict(day_number, mode, name, reason, net) ==
    LET viewform_url == resolve_short_url(day_number, mode, net.resolve)
    IN IF viewform_url = None THEN None
       ELSE IF net.token.kind = "neterror" THEN None
       ELSE IF net.token.fbzx = None THEN None
       ELSE LET ids == fetch_form_entry_ids_for_day(viewform_url, day_number, net.page)
            IN IF IsRaised(ids) THEN ids
               ELSE IF ids.name_entry = None \/ ids.option_entry = None
                       \/ ids.reason_entry = None
                    THEN None
               ELSE [status |-> "prepared",
                     day_number |-> day_number,
                     day_name |-> DAY_NAMES(day_number),
                     url |-> FormUrl("formResponse", viewform_url.slot, viewform_url.mode),
                     headers |-> viewform_url,
                     payload |-> <<<<[status |-> "fbzx"], net.token.fbzx>>,
                                   <<ids.name_entry, Str(name)>>,
                                   <<ids.option_entry, Str("leave")>>>>]

\* prepare_submission_data: net holds the answers to the three network
\* steps: resolve (see resolve_short_url), token (kind "neterror", or "html"
\* with fbzx a token or None) and page (see fetch_form_entry_ids_for_day).
prepare_submission_data(day_number, mode, name, reason, net) ==
    LET viewform_url == resolve_short_url(day_number, mode, net.resolve)
    IN IF viewform_url = None THEN None
       ELSE IF net.token.kind = "neterror" THEN None
       ELSE IF net.token.fbzx = None THEN None
       ELSE LET ids == fetch_form_entry_ids_for_day(viewform_url, day_number, net.page)
            IN IF IsRaised(ids) THEN ids
               ELSE IF ids.name_entry = None \/ ids.option_entry = None
                       \/ (day_number >= 6 /\ ids.reason_entry = None)
                    THEN None
               ELSE LET user_data0 == DictSet(DictSet(<<>>, ids.name_entry, Str(name)),
                                              ids.option_entry, Str("leave"))
                        user_data == IF day_number >= 6 /\ Truthy(reason)
                                     THEN DictSet(user_data0, ids.reason_entry, reason)
                                     ELSE user_data0
                        payload == DictUpdate(<<<<[status |-> "fbzx"], net.token.fbzx>>>>, user_data)
                    IN [status |-> "prepared",
                        day_number |-> day_number,
                        day_name |-> DAY_NAMES(day_number),
                        url |-> FormUrl("formResponse", viewform_url.slot, viewform_url.mode),
                        headers |-> viewform_url,
                        payload |-> payload]

Outcome(day, success) == [status |-> "outcome", day_number |-> day, success |-> success]

\* execute_submission with "or" where the code says "and".
mut_execute_submission(submission_data, resp) ==
    IF resp.kind = "other_exception" THEN Raised("Exception")
    ELSE IF resp.kind = "request_exception" THEN Outcome(submission_data.day_number, FALSE)
    ELSE IF 400 <= resp.status_code /\ resp.status_code < 600
         THEN Outcome(submission_data.day_number, FALSE)
    ELSE Outcome(submission_data.day_number, resp.has_message \/ resp.has_link)

\* execute_submission without its except clause: an error of requests
\* leaves the function.
mut_execute_submission_uncaught(submission_data, resp) ==
    IF resp.kind = "other_exception" THEN Raised("Exception")
    ELSE IF resp.kind = "request_exception" THEN Raised("RequestException")
    ELSE IF 400 <= resp.status_code /\ resp.status_code < 600 THEN Raised("HTTPError")
    ELSE Outcome(submission_data.day_number, resp.has_message /\ resp.has_link)

\* response.raise_for_status(): an HTTPError for the 4xx and 5xx codes.
raise_for_status(status_code) == 400 <= status_code /\ status_code < 600

\* execute_submission: resp is the answer to the one POST: kind "response"
\* with its status code and whether the body holds the confirmation message
\* and the "submit another response" link text, kind "request_exception"
\* (a transport error of requests) or kind "other_exception".
execute_submission(submission_data, resp) ==
    IF resp.kind = "other_exception" THEN Raised("Exception")
    ELSE IF resp.kind = "request_exception" THEN Outcome(submission_data.day_number, FALSE)
    ELSE IF raise_for_status(resp.status_code) THEN Outcome(submission_data.day_number, FALSE)
    ELSE IF resp.has_message /\ resp.has_link THEN Outcome(submission_data.day_number, TRUE)
    ELSE Outcome(submission_data.day_number, FALSE)

\* ------------------------------------------------- main.py: the scheduler

DayMs == 24 * 60 * 60 * 1000

WeekMs == 7 * DayMs

\* dt_time(13, 59, 59, 750000): the target time of day.
TargetTod == ((13 * 60 + 59) * 60 + 59) * 1000 + 750

\* dt_time(14, 0): the time of day from which a Wednesday counts as over.
RollTod == 14 * 60 * 60 * 1000

\* now.weekday(): Monday is 0.
weekday(t) == (t \div DayMs) % 7

\* now.time().
time_of_day(t) == t % DayMs

\* days_until_wednesday with ">" where the code says ">=".
mut_days_until_wednesday(t) ==
    LET d == (2 - weekday(t) + 7) % 7
    IN IF d = 0 /\ time_of_day(t) > RollTod THEN 7 ELSE d

\* days_until_wednesday, after the roll-over test.
days_until_wednesday(t) ==
    LET d == (2 - weekday(t) + 7) % 7
    IN IF d = 0 /\ time_of_day(t) >= RollTod THEN 7 ELSE d

\* datetime.combine(now.date() + timedelta(days=...), dt_time(13, 59, 59, 750000)).
target_of(t) == ((t \div DayMs) + days_until_wednesday(t)) * DayMs + TargetTod

\* sleep_interval with the last band sleeping 10 ms, as the band before it.
mut_sleep_interval(r) ==
    IF r > 60000 THEN 1000
    ELSE IF r > 5000 THEN 100
    ELSE 10

\* sleep_interval whose polling bands sleep a full second.
mut_sleep_interval_coarse(r) ==
    IF r > 500 THEN 1000 ELSE r

\* The argument of time.sleep in the iteration that sees r = wait_seconds.
sleep_interval(r) ==
    IF r > 60000 THEN 1000
    ELSE IF r > 5000 THEN 100
    ELSE IF r > 500 THEN 10
    ELSE r

\* Whether the iteration that sees r leaves the loop by break.
final_band(r) == r <= 500

\* The instants, relative to the target, at which the clock is read: between
\* two readings at least the interval slept has passed.
TickOffsets == {-61000, -60000, -59900, -5100, -5000, -4990, -510, -500, -10, 0, 1000}

\* A clock that does not advance over a sleep.
mut_AfterSleep(c, d, target) == {c}

\* The clock readings possible after time.sleep(d) called at clock reading c.
AfterSleep(c, d, target) == {target + o : o \in {x \in TickOffsets : target + x >= c + d}}

\* ----------------------------------------------------------------- inputs

DayChars == {"mon", "sat", "sun"}

\* Sequences over S of length 1..n.
RECURSIVE SeqsUpTo(_, _)
SeqsUpTo(S, n) ==
    IF n = 0 THEN {}
    ELSE {<<x>> : x \in S}
         \cup SeqsUpTo(S, n - 1)
         \cup {Append(q, x) : q \in SeqsUpTo(S, n - 1), x \in S}

\* The Saturday and the Sunday reason of a configuration: both empty, or one
\* a character short of the minimum (with a blank inside) and the other long
\* enough, or both long enough.
ReasonPairs ==
    {<<ReasonText(0, 0), ReasonText(0, 0)>>, <<ReasonText(14, 1), ReasonText(15, 0)>>,
     <<ReasonText(15, 0), ReasonText(14, 1)>>, <<ReasonText(15, 0), ReasonText(15, 0)>>}

\* The contents of data.txt: unreadable or malformed, or four well-formed
\* lines (the day characters may still name no day).
ConfigFiles ==
    {[kind |-> k] : k \in {"missing", "short", "badprefix"}}
    \cup {[kind |-> "ok", name |-> n, day_chars |-> dc, reason_sat |-> r[1], reason_sun |-> r[2]] :
            n \in {"", "N"}, dc \in SeqsUpTo(DayChars, MaxDays) \cup {<<>>, <<"x">>},
            r \in ReasonPairs}

ResolveEnv(file_ok, n_urls, get) == [file_ok |-> file_ok, n_urls |-> n_urls, get |-> get]

\* The answers to the resolver: the list file unreadable, a list of five
\* URLs, a list of seven with each answer to the GET.
ResolveEnvs ==
    {ResolveEnv(FALSE, 0, "location"), ResolveEnv(TRUE, 5, "location")}
    \cup {ResolveEnv(TRUE, 7, g) : g \in {"neterror", "nolocation", "location"}}

TokenResponses == {[kind |-> "neterror"], [kind |-> "html", fbzx |-> None],
                   [kind |-> "html", fbzx |-> Str("tok")]}

Question(text, entry) == [text |-> text, entry |-> entry]

JsonPage(top, questions) == [kind |-> "json", top |-> top, questions |-> questions]

\* The answers to the GET of a form page the runs draw from.
Pages ==
    {[kind |-> k] : k \in {"neterror", "nostruct", "badjson"}}
    \cup {JsonPage("null", <<>>), JsonPage("short", <<>>)}
    \cup {JsonPage("list", q) : q \in {
            <<Question("name", 1), Question("option", 2), Question("reason", 3)>>,
            <<Question("name", 1), Question("option", 2)>>,
            <<Question("option", 2), Question("reason", 3)>>,
            <<Question("other", -1), Question("name", 1), Question("option", 2)>>,
            <<Question("name", 1), Question("option", -2)>>,
            <<Question("null", 4), Question("name", 1), Question("option", 2)>>}}

NoAnswer == [kind |-> "unasked"]

Net(resolve, token, page) == [resolve |-> resolve, token |-> token, page |-> page]

GoodToken == [kind |-> "html", fbzx |-> Str("tok")]

\* The answers to the three network steps of one preparation of a day; a
\* step that is not reached gets no answer.
NetAnswers ==
    [day_number \in 1..7 |->
        LET resolving == {r \in ResolveEnvs : resolve_short_url(day_number, 0, r) # None}
        IN {Net(r, NoAnswer, NoAnswer) : r \in ResolveEnvs \ resolving}
           \cup {Net(r, t, NoAnswer) : r \in resolving, t \in TokenResponses \ {GoodToken}}
           \cup {Net(r, GoodToken, p) : r \in resolving, p \in Pages}]

PostAnswers ==
    {[kind |-> k] : k \in {"request_exception", "other_exception"}}
    \cup [kind : {"response"}, status_code : {200, 204, 400, 404, 500, 599},
          has_message : BOOLEAN, has_link : BOOLEAN]

\* The answers to a POST the runs draw from.
RunPostAnswers ==
    {a \in PostAnswers : a.kind = "response" => a.status_code \in {200, 500}}

\* The instants at which a run may call the scheduler.
Instants(weekdays, tods) == {wd * DayMs + t : wd \in weekdays, t \in tods}

\* The instants the runs draw from: a Wednesday before the target, and
\* within the quarter second between the target and 14:00.
RunInstants == Instants({2}, {TargetTod - 61000, TargetTod + 100})

\* ------------------------------------------------------------------ state

VARIABLES
    pc,                   \* where the main thread is
    exit_code,            \* the exit code of the process, -1 while it runs
    config,               \* the configuration read, or None
    mode,                 \* 0 (test), 1 (live), -1 before the choice
    prep_futures,         \* per selected day entry: the preparation future
    prep_collected,       \* the preparation futures as_completed has yielded
    prepared_tasks,       \* the descriptors with status prepared
    prep_failed_tasks,    \* the prep_failed records
    now,                  \* wait_for_scheduled_time: the instant of the call
    target_datetime,      \* wait_for_scheduled_time: the target
    wait_seconds,         \* wait_for_scheduled_time: the remaining time
    clock,                \* the wall clock as last read
    interrupted,          \* a KeyboardInterrupt was delivered during the wait
    sub_futures,          \* per prepared descriptor: the submission future
    sub_collected,        \* the submission futures as_completed has yielded
    posts,                \* per day number: the POSTs issued
    success_count, fail_count, successful_day_names, failed_day_names,
    summary_data,         \* the summary record, or None
    notified,             \* the calls of send_summary_email
    call,                 \* a function called on its own: its name and arguments
    ret                   \* what that call returned, or None

vars == <<pc, exit_code, config, mode, prep_futures, prep_collected, prepared_tasks,
          prep_failed_tasks, now, target_datetime, wait_seconds, clock, interrupted,
          sub_futures, sub_collected, posts, success_count, fail_count,
          successful_day_names, failed_day_names, summary_data, notified, call, ret>>

prepVars == <<prep_futures, prep_collected, prepared_tasks, prep_failed_tasks>>

schedVars == <<now, target_datetime, wait_seconds, clock, interrupted>>

subVars == <<sub_futures, sub_collected, posts, success_count, fail_count,
             successful_day_names, failed_day_names>>

endVars == <<summary_data, notified>>

callVars == <<call, ret>>

Pending == [status |-> "pending"]

Init ==
    /\ pc = "read_config"
    /\ exit_code = -1
    /\ config = None
    /\ mode = -1
    /\ prep_futures = <<>>
    /\ prep_collected = {}
    /\ prepared_tasks = <<>>
    /\ prep_failed_tasks = <<>>
    /\ now = 0
    /\ target_datetime = 0
    /\ wait_seconds = 0
    /\ clock = 0
    /\ interrupted = FALSE
    /\ sub_futures = <<>>
    /\ sub_collected = {}
    /\ posts = [d \in 1..7 |-> 0]
    /\ success_count = 0
    /\ fail_count = 0
    /\ successful_day_names = <<>>
    /\ failed_day_names = <<>>
    /\ summary_data = None
    /\ notified = 0
    /\ call = None
    /\ ret = None

\* ------------------------------------------------- main.py: the main thread

NumDays == Len(config.days)

\* sys.exit(code), and the end of the process by an uncaught exception.
Exit(code) == pc' = "exit" /\ exit_code' = code

Crash == pc' = "crashed" /\ exit_code' = 1

\* Reading, display and validation of the configuration, up to the prompt.
ReadConfig(file) ==
    /\ pc = "read_config"
    /\ config' = read_config_file(file)
    /\ IF config' = None THEN Exit(1)
       ELSE IF ~validate_config(config') THEN Exit(1)
       ELSE pc' = "confirm" /\ exit_code' = exit_code
    /\ UNCHANGED callVars
    /\ UNCHANGED <<mode, prepVars, schedVars, subVars, endVars>>

\* The confirmation prompt: the answer is stripped and lower-cased.
Confirm(answer) ==
    /\ pc = "confirm"
    /\ IF answer # "" /\ answer \notin {"y", "yes"} THEN Exit(0)
       ELSE pc' = "choose_mode" /\ exit_code' = exit_code
    /\ UNCHANGED callVars
    /\ UNCHANGED <<config, mode, prepVars, schedVars, subVars, endVars>>

\* The mode prompt; with a mode chosen the preparation pool is created and
\* one task per day entry is submitted to it.
ChooseMode(mode_input) ==
    /\ pc = "choose_mode"
    /\ IF mode_input \in {"0", "1"}
       THEN /\ mode' = (IF mode_input = "0" THEN 0 ELSE 1)
            /\ prep_futures' = [i \in 1..NumDays |-> Pending]
            /\ pc' = "preparing"
       ELSE UNCHANGED <<mode, prep_futures, pc>>
    /\ UNCHANGED callVars
    /\ UNCHANGED <<exit_code, config, prep_collected, prepared_tasks, prep_failed_tasks,
                   schedVars, subVars, endVars>>

\* The reasons of Saturday and Sunday handed to each other's task.
mut_reason_for(day_number) ==
    IF day_number = 6 THEN config.reason_sun
    ELSE IF day_number = 7 THEN config.reason_sat
    ELSE None

\* The reason handed to the task of day_number.
reason_for(day_number) ==
    IF day_number = 6 THEN config.reason_sat
    ELSE IF day_number = 7 THEN config.reason_sun
    ELSE None

\* A worker of the preparation pool runs the task of day entry i to its end.
\* The pool outlives an exception in the main thread until its tasks end.
RunPrepare(i, net) ==
    /\ pc \in {"preparing", "prep_unwind"}
    /\ prep_futures[i] = Pending
    /\ prep_futures' = [prep_futures EXCEPT ![i] =
          prepare_submission_data(config.days[i], mode, config.name,
                                  reason_for(config.days[i]), net)]
    /\ UNCHANGED callVars
    /\ UNCHANGED <<pc, exit_code, config, mode, prep_collected, prepared_tasks,
                   prep_failed_tasks, schedVars, subVars, endVars>>

PrepFailed(day_num) ==
    [day_number |-> day_num, day_name |-> DAY_NAMES(day_num), status |-> "prep_failed"]

\* The test on a result of the preparation loop: prepared, or a failure of
\* the preparation (None included).
classify(result) ==
    IF result # None /\ result.status = "prepared" THEN "prepared" ELSE "prep_failed"

\* as_completed yields a finished future; future.result() returns the
\* task's result or raises what the task raised.
CollectPrepared(i) ==
    /\ pc = "preparing"
    /\ i \notin prep_collected
    /\ prep_futures[i] # Pending
    /\ prep_collected' = prep_collected \cup {i}
    /\ LET result == prep_futures[i]
       IN IF IsRaised(result)
          THEN pc' = "prep_unwind" /\ UNCHANGED <<prepared_tasks, prep_failed_tasks>>
          ELSE IF classify(result) = "prepared"
          THEN /\ prepared_tasks' = Append(prepared_tasks, result)
               /\ UNCHANGED <<pc, prep_failed_tasks>>
          ELSE /\ prep_failed_tasks' = Append(prep_failed_tasks, PrepFailed(config.days[i]))
               /\ UNCHANGED <<pc, prepared_tasks>>
    /\ UNCHANGED callVars
    /\ UNCHANGED <<exit_code, config, mode, prep_futures, schedVars, subVars, endVars>>

\* An exception raised in the loop leaves the with block once the pool has
\* shut down, and ends the process.
PrepUnwind ==
    /\ pc = "prep_unwind"
    /\ \A i \in 1..NumDays : prep_futures[i] # Pending
    /\ Crash
    /\ UNCHANGED callVars
    /\ UNCHANGED <<config, mode, prepVars, schedVars, subVars, endVars>>

\* A loop over as_completed that is left after its first future.
mut_as_completed_exhausted(collected, futures) == collected # {}

\* "for future in as_completed(...)" ends: every future of the pool was
\* yielded, and so every task has finished.
as_completed_exhausted(collected, futures) == collected = 1..Len(futures)

\* The branch on the mode that calls the scheduler whatever the mode is.
mut_after_preparing(m) == "sched_entry"

\* "if mode == 1: wait_for_scheduled_time()": where the main thread goes
\* after the preparation phase.
after_preparing(m) == IF m = 1 THEN "sched_entry" ELSE "submit_entry"

\* The end of the preparation phase and the branch on the mode.
FinishPreparing ==
    /\ pc = "preparing"
    /\ as_completed_exhausted(prep_collected, prep_futures)
    /\ pc' = after_preparing(mode)
    /\ UNCHANGED callVars
    /\ UNCHANGED <<exit_code, config, mode, prepVars, schedVars, subVars, endVars>>

\* wait_for_scheduled_time up to its loop: the clock reads t. The local
\* wait_seconds is cleared when the function returns; now keeps the instant
\* of the call.
WaitStart(t) ==
    /\ pc = "sched_entry"
    /\ clock' = t
    /\ target_datetime' = target_of(t)
    /\ IF target_of(t) - t <= 0
       THEN pc' = "submit_entry" /\ now' = t /\ wait_seconds' = 0
       ELSE pc' = "waiting" /\ now' = t /\ wait_seconds' = target_of(t) - t
    /\ UNCHANGED callVars
    /\ UNCHANGED <<exit_code, config, mode, prepVars, interrupted, subVars, endVars>>

\* One iteration of the countdown loop: the sleep, then either the break or
\* the next reading of the clock.
WaitIter ==
    /\ pc = "waiting"
    /\ wait_seconds > 0
    /\ \E c \in AfterSleep(clock, sleep_interval(wait_seconds), target_datetime) :
          /\ clock' = c
          /\ IF final_band(wait_seconds)
             THEN pc' = "submit_entry" /\ wait_seconds' = 0
             ELSE pc' = "waiting" /\ wait_seconds' = target_datetime - c
    /\ UNCHANGED callVars
    /\ UNCHANGED <<exit_code, config, mode, prepVars, now, target_datetime, interrupted,
                   subVars, endVars>>

\* The loop condition fails: the function returns.
WaitLoopExit ==
    /\ pc = "waiting"
    /\ wait_seconds <= 0
    /\ pc' = "submit_entry"
    /\ wait_seconds' = 0
    /\ UNCHANGED callVars
    /\ UNCHANGED <<exit_code, config, mode, prepVars, now, target_datetime, clock, interrupted,
                   subVars, endVars>>

\* A handler that swallows the interrupt: the function returns.
mut_on_keyboard_interrupt == pc' = "submit_entry" /\ exit_code' = exit_code

\* The handler of KeyboardInterrupt around the loop.
on_keyboard_interrupt == Exit(0)

KeyboardInterrupt ==
    /\ pc = "waiting"
    /\ interrupted' = TRUE
    /\ on_keyboard_interrupt
    /\ UNCHANGED callVars
    /\ UNCHANGED <<config, mode, prepVars, now, target_datetime, wait_seconds, clock,
                   subVars, endVars>>

\* ThreadPoolExecutor(max_workers=n): a ValueError unless n > 0.
pool_accepts(max_workers) == max_workers > 0

\* The start of the submission phase: the counters, the names of the days
\* that failed preparation, then the pool and one task per descriptor.
BeginSubmission ==
    /\ pc = "submit_entry"
    /\ success_count' = 0
    /\ fail_count' = Len(prep_failed_tasks)
    /\ successful_day_names' = <<>>
    /\ failed_day_names' = [j \in 1..Len(prep_failed_tasks) |-> prep_failed_tasks[j].day_name]
    /\ IF pool_accepts(Len(prepared_tasks))
       THEN /\ sub_futures' = [k \in 1..Len(prepared_tasks) |-> Pending]
            /\ pc' = "submitting"
            /\ UNCHANGED exit_code
       ELSE Crash /\ UNCHANGED sub_futures
    /\ UNCHANGED callVars
    /\ UNCHANGED <<config, mode, prepVars, schedVars, sub_collected, posts, endVars>>

\* A worker of the submission pool runs the task of descriptor k: one POST.
RunSubmit(k, resp) ==
    /\ pc = "submitting"
    /\ sub_futures[k] = Pending
    /\ posts' = [posts EXCEPT ![prepared_tasks[k].day_number] = @ + 1]
    /\ sub_futures' = [sub_futures EXCEPT ![k] = execute_submission(prepared_tasks[k], resp)]
    /\ UNCHANGED callVars
    /\ UNCHANGED <<pc, exit_code, config, mode, prepVars, schedVars, sub_collected,
                   success_count, fail_count, successful_day_names, failed_day_names,
                   endVars>>

\* The submission loop without its except clause: the exception ends the run.
mut_on_submit_exception(task_name) ==
    /\ Crash
    /\ UNCHANGED <<fail_count, failed_day_names, success_count, successful_day_names>>

\* The except clause around future.result() in the submission loop: the
\* task counts as failed under the name of its descriptor.
on_submit_exception(task_name) ==
    /\ fail_count' = fail_count + 1
    /\ failed_day_names' = Append(failed_day_names, task_name)
    /\ UNCHANGED <<pc, exit_code, success_count, successful_day_names>>

\* as_completed yields a finished submission future.
CollectSubmit(k) ==
    /\ pc = "submitting"
    /\ k \notin sub_collected
    /\ sub_futures[k] # Pending
    /\ sub_collected' = sub_collected \cup {k}
    /\ LET task_name == prepared_tasks[k].day_name
           res == sub_futures[k]
       IN IF IsRaised(res)
          THEN on_submit_exception(task_name)
          ELSE IF res.success
          THEN /\ success_count' = success_count + 1
               /\ successful_day_names' = Append(successful_day_names, DAY_NAMES(res.day_number))
               /\ UNCHANGED <<pc, exit_code, fail_count, failed_day_names>>
          ELSE /\ fail_count' = fail_count + 1
               /\ failed_day_names' = Append(failed_day_names, DAY_NAMES(res.day_number))
               /\ UNCHANGED <<pc, exit_code, success_count, successful_day_names>>
    /\ UNCHANGED callVars
    /\ UNCHANGED <<config, mode, prepVars, schedVars, sub_futures, posts, endVars>>

FinishSubmitting ==
    /\ pc = "submitting"
    /\ as_completed_exhausted(sub_collected, sub_futures)
    /\ pc' = "summarizing"
    /\ UNCHANGED callVars
    /\ UNCHANGED <<exit_code, config, mode, prepVars, schedVars, subVars, endVars>>

FailedTask(day_name, status) == [day_name |-> day_name, status |-> status]

\* failed_tasks_for_email that keeps, of the names that failed submission,
\* the one collected first.
mut_failed_tasks_for_email ==
    LET prep_failed_names == [j \in 1..Len(prep_failed_tasks) |-> prep_failed_tasks[j].day_name]
        from_prep == [j \in 1..Len(prep_failed_tasks) |->
                        FailedTask(prep_failed_tasks[j].day_name, prep_failed_tasks[j].status)]
        later == SelectSeq(failed_day_names, LAMBDA n : ~InList(n, prep_failed_names))
    IN from_prep \o [j \in 1..(IF later = <<>> THEN 0 ELSE 1) |->
                        FailedTask(later[j], "submission_failed")]

\* failed_tasks_for_email: the prep_failed records, then the failed names
\* that are not names of prep_failed records, as submission_failed.
failed_tasks_for_email ==
    LET prep_failed_names == [j \in 1..Len(prep_failed_tasks) |-> prep_failed_tasks[j].day_name]
        from_prep == [j \in 1..Len(prep_failed_tasks) |->
                        FailedTask(prep_failed_tasks[j].day_name, prep_failed_tasks[j].status)]
        later == SelectSeq(failed_day_names, LAMBDA n : ~InList(n, prep_failed_names))
    IN from_prep \o [j \in 1..Len(later) |-> FailedTask(later[j], "submission_failed")]

all_success == fail_count = 0 /\ Len(prep_failed_tasks) = 0

\* The tally and the summary record.
Summarize ==
    /\ pc = "summarizing"
    /\ summary_data' = [status |-> "summary",
                        submitted_days |-> [j \in 1..NumDays |-> DAY_NAMES(config.days[j])],
                        reasons |-> [sat |-> IF InList(6, config.days) THEN config.reason_sat ELSE None,
                                     sun |-> IF InList(7, config.days) THEN config.reason_sun ELSE None],
                        all_success |-> all_success,
                        successful_day_names |-> successful_day_names,
                        failed_tasks |-> failed_tasks_for_email]
    /\ pc' = "notifying"
    /\ UNCHANGED callVars
    /\ UNCHANGED <<exit_code, config, mode, prepVars, schedVars, subVars, notified>>

\* A boolean where None or an exception can stand.
Bool(b) == [status |-> "bool", value |-> b]

\* The mail settings and the SMTP server as send_summary_email finds them:
\* whether SENDER_EMAIL and KEY are set, RECIPIENT_EMAIL ("" unset, "sep"
\* separators and blanks only, "list" addresses) and, per address, what the
\* SMTP session does ("ok", "auth" an SMTPAuthenticationError, "error" any
\* other error of the connection or the session).
MailEnv(sender, rcpt, key, smtp) ==
    [status |-> "call", fn |-> "send_summary_email",
     sender |-> sender, rcpt |-> rcpt, key |-> key, smtp |-> smtp]

MailEnvs ==
    {MailEnv(FALSE, "list", TRUE, <<"ok">>), MailEnv(TRUE, "list", FALSE, <<"ok">>),
     MailEnv(TRUE, "", TRUE, <<>>), MailEnv(TRUE, "sep", TRUE, <<>>)}
    \cup {MailEnv(TRUE, "list", TRUE, smtp) :
            smtp \in {<<"ok">>, <<"auth">>, <<"error">>,
                      <<"ok", "ok">>, <<"ok", "error">>, <<"auth", "auth">>}}

\* send_email_to_single_recipient_async: the success flag of its result.
send_email_to_single_recipient_async(outcome) == outcome = "ok"

\* send_summary_email whose single-recipient branch handles the
\* authentication error only.
mut_send_summary_email(summary, mail) ==
    IF ~(mail.sender /\ mail.rcpt # "" /\ mail.key) THEN Bool(FALSE)
    ELSE LET recipient_emails == IF mail.rcpt = "sep" THEN <<>> ELSE mail.smtp
         IN IF recipient_emails = <<>> THEN Bool(FALSE)
            ELSE IF Len(recipient_emails) = 1
            THEN (IF recipient_emails[1] = "ok" THEN Bool(TRUE)
                  ELSE IF recipient_emails[1] = "auth" THEN Bool(FALSE)
                  ELSE Raised("SMTPException"))
            ELSE Bool(\A j \in 1..Len(recipient_emails) : recipient_emails[j] = "ok")

\* send_summary_email: the settings, the recipient list, then the one
\* synchronous session or the concurrent sessions and their tally.
send_summary_email(summary, mail) ==
    IF ~(mail.sender /\ mail.rcpt # "" /\ mail.key) THEN Bool(FALSE)
    ELSE LET recipient_emails == IF mail.rcpt = "sep" THEN <<>> ELSE mail.smtp
         IN IF recipient_emails = <<>> THEN Bool(FALSE)
            ELSE IF Len(recipient_emails) = 1
            THEN (IF recipient_emails[1] = "ok" THEN Bool(TRUE)
                  ELSE IF recipient_emails[1] = "auth" THEN Bool(FALSE)
                  ELSE Bool(FALSE))
            ELSE LET results == [j \in 1..Len(recipient_emails) |->
                                    send_email_to_single_recipient_async(recipient_emails[j])]
                     success_count_ == Cardinality({j \in 1..Len(results) : results[j]})
                     failed_count == Len(results) - success_count_
                 IN Bool(failed_count = 0)

\* email_sent = send_summary_email(summary_data): the call is the last
\* statement but two prints, outside any try; the run ends.
Notify(mail) ==
    /\ pc = "notifying"
    /\ notified' = notified + 1
    /\ call' = mail
    /\ ret' = send_summary_email(summary_data, mail)
    /\ IF IsRaised(ret') THEN Crash ELSE pc' = "done" /\ exit_code' = 0
    /\ UNCHANGED <<config, mode, prepVars, schedVars, subVars, summary_data>>

Next ==
    \/ pc = "read_config" /\ \E file \in ConfigFiles : ReadConfig(file)
    \/ pc = "confirm" /\ \E answer \in {"", "y", "n"} : Confirm(answer)
    \/ pc = "choose_mode" /\ \E mode_input \in {"0", "1", "x"} : ChooseMode(mode_input)
    \/ \E i \in 1..Len(prep_futures) :
          /\ prep_futures[i] = Pending
          /\ \E net \in NetAnswers[config.days[i]] : RunPrepare(i, net)
    \/ \E i \in 1..Len(prep_futures) : CollectPrepared(i)
    \/ PrepUnwind
    \/ FinishPreparing
    \/ pc = "sched_entry" /\ \E t \in RunInstants : WaitStart(t)
    \/ WaitIter
    \/ WaitLoopExit
    \/ KeyboardInterrupt
    \/ BeginSubmission
    \/ \E k \in 1..Len(sub_futures) :
          /\ sub_futures[k] = Pending
          /\ \E resp \in RunPostAnswers : RunSubmit(k, resp)
    \/ \E k \in 1..Len(sub_futures) : CollectSubmit(k)
    \/ FinishSubmitting
    \/ Summarize
    \/ pc = "notifying" /\ \E mail \in MailEnvs : Notify(mail)

Spec == Init /\ [][Next]_vars

\* The threads of the submission pool run and the main thread takes what
\* they finish: the submission phase does not stop while a step is possible.
SubmitPhase ==
    \/ \E k \in 1..Len(sub_futures) : \E resp \in RunPostAnswers : RunSubmit(k, resp)
    \/ \E k \in 1..Len(sub_futures) : CollectSubmit(k)
    \/ FinishSubmitting

FairSpec == Spec /\ WF_vars(SubmitPhase)

\* ------------------------------------------- the scheduler, called on its own

\* A descriptor of day 1 as the preparation of a live run builds it.
MondayTask ==
    prepare_submission_data(1, 1, "N", None,
        Net(ResolveEnv(TRUE, 7, "location"), GoodToken,
            JsonPage("list", <<Question("name", 1), Question("option", 2)>>)))

\* A live run of day 1 at the call of wait_for_scheduled_time.
SchedInit ==
    /\ pc = "sched_entry"
    /\ exit_code = -1
    /\ config = [status |-> "config", name |-> "N", days |-> <<1>>,
                 reason_sat |-> ReasonText(0, 0), reason_sun |-> ReasonText(0, 0)]
    /\ mode = 1
    /\ prep_futures = <<MondayTask>>
    /\ prep_collected = {1}
    /\ prepared_tasks = <<MondayTask>>
    /\ prep_failed_tasks = <<>>
    /\ now = 0 /\ target_datetime = 0 /\ wait_seconds = 0 /\ clock = 0
    /\ interrupted = FALSE
    /\ sub_futures = <<>> /\ sub_collected = {}
    /\ posts = [d \in 1..7 |-> 0]
    /\ success_count = 0 /\ fail_count = 0
    /\ successful_day_names = <<>> /\ failed_day_names = <<>>
    /\ summary_data = None /\ notified = 0
    /\ call = None /\ ret = None

\* The instants of a week around midnight, the target and 14:00.
SchedInstants ==
    Instants(0..6, {0, TargetTod - 61000, TargetTod - 1, TargetTod, TargetTod + 1,
                    RollTod - 1, RollTod, RollTod + 1, DayMs - 1})

SchedNext ==
    \/ pc = "sched_entry" /\ \E t \in SchedInstants : WaitStart(t)
    \/ WaitIter
    \/ WaitLoopExit
    \/ KeyboardInterrupt

SchedSpec == SchedInit /\ [][SchedNext]_vars

\* -------------------------------------------- the executor, called on its own

\* The descriptors the preparation can build for a day.
Descriptors ==
    {d \in UNION {{prepare_submission_data(day, m, "N",
                       IF day >= 6 THEN ReasonText(15, 0) ELSE None, net) :
                     m \in {0, 1}, net \in NetAnswers[day]} : day \in 1..7} :
        d.status = "prepared"}

ExecCall(d, resp) == [status |-> "call", fn |-> "execute_submission", submission_data |-> d, resp |-> resp]

\* execute_submission is about to be called on a descriptor, with the answer
\* its POST will get.
ExecInit ==
    /\ pc = "call" /\ exit_code = -1 /\ config = None /\ mode = -1
    /\ prep_futures = <<>> /\ prep_collected = {}
    /\ prepared_tasks = <<>> /\ prep_failed_tasks = <<>>
    /\ now = 0 /\ target_datetime = 0 /\ wait_seconds = 0 /\ clock = 0
    /\ interrupted = FALSE
    /\ sub_futures = <<>> /\ sub_collected = {}
    /\ posts = [d \in 1..7 |-> 0]
    /\ success_count = 0 /\ fail_count = 0
    /\ successful_day_names = <<>> /\ failed_day_names = <<>>
    /\ summary_data = None /\ notified = 0
    /\ call \in {ExecCall(d, resp) : d \in Descriptors, resp \in PostAnswers}
    /\ ret = None

ExecReturn ==
    /\ pc = "call"
    /\ ret' = execute_submission(call.submission_data, call.resp)
    /\ posts' = [posts EXCEPT ![call.submission_data.day_number] = @ + 1]
    /\ pc' = "returned"
    /\ UNCHANGED <<exit_code, config, mode, prepVars, schedVars, sub_futures, sub_collected,
                   success_count, fail_count, successful_day_names, failed_day_names,
                   endVars, call>>

ExecSpec == ExecInit /\ [][ExecReturn]_vars

\* ------------------------------------- field discovery, called on its own

\* The largest number of question records of a form page.
MaxQuestions == 3

\* The label texts of the question records, named by the keywords they hold.
Labels == {"name", "option", "reason", "name_reason", "other"}

\* The question records of a page in document order, the j-th with
\* identifier j, so that records with one label text differ by identifier.
QuestionList(ls) == [j \in 1..Len(ls) |-> Question(ls[j], j)]

\* The answers to the GET of a form page: those of the runs, and every
\* well-formed question list of up to MaxQuestions records.
FetchPages ==
    Pages \cup {JsonPage("list", QuestionList(ls)) : ls \in SeqsUpTo(Labels, MaxQuestions)}

FetchCall(day, page) ==
    [status |-> "call", fn |-> "fetch_form_entry_ids_for_day",
     form_url |-> FormUrl("viewform", day, 0), day_number |-> day, page |-> page]

\* fetch_form_entry_ids_for_day is about to be called for a day, with the
\* answer its GET will get.
FetchInit ==
    /\ pc = "call" /\ exit_code = -1 /\ config = None /\ mode = -1
    /\ prep_futures = <<>> /\ prep_collected = {}
    /\ prepared_tasks = <<>> /\ prep_failed_tasks = <<>>
    /\ now = 0 /\ target_datetime = 0 /\ wait_seconds = 0 /\ clock = 0
    /\ interrupted = FALSE
    /\ sub_futures = <<>> /\ sub_collected = {}
    /\ posts = [d \in 1..7 |-> 0]
    /\ success_count = 0 /\ fail_count = 0
    /\ successful_day_names = <<>> /\ failed_day_names = <<>>
    /\ summary_data = None /\ notified = 0
    /\ call \in {FetchCall(day, page) : day \in {1, 5, 6, 7}, page \in FetchPages}
    /\ ret = None

FetchReturn ==
    /\ pc = "call"
    /\ ret' = fetch_form_entry_ids_for_day(call.form_url, call.day_number, call.page)
    /\ pc' = "returned"
    /\ UNCHANGED <<exit_code, config, mode, prepVars, schedVars, subVars, endVars, call>>

FetchSpec == FetchInit /\ [][FetchReturn]_vars

\* ------------------------------------------ the resolver, called on its own

\* The range test with 0 taken for a day.
mut_day_in_range(day_index) == ~(day_index < 0 \/ day_index > NumSlots)

\* "if day_index < 1 or day_index > 7: return None", negated.
day_in_range(day_index) == ~(day_index < 1 \/ day_index > NumSlots)

\* A GET that is issued a second time after a network error.
mut_after_get(c) ==
    IF c.env.get = "neterror" /\ c.gets < 1
    THEN [c EXCEPT !.gets = @ + 1]
    ELSE [c EXCEPT !.gets = @ + 1, !.at = "returned"]

\* The try block around requests.get: every path through it and through
\* its handler is a return.
after_get(c) == [c EXCEPT !.gets = @ + 1, !.at = "returned"]

\* A call of resolve_short_url at its first statement: gets and reads count
\* the GETs issued and the openings of the URL list file.
ResolveCall(day, m, env) ==
    [status |-> "call", fn |-> "resolve_short_url", day_number |-> day, mode |-> m,
     env |-> env, at |-> "range", gets |-> 0, reads |-> 0]

\* The day selectors handed to the resolver.
ResolveDays == -1..9

\* What the file system and the network answer to the resolver.
ResolveCallEnvs ==
    {ResolveEnv(f, n, g) : f \in BOOLEAN, n \in {0, 3, 7},
                           g \in {"neterror", "nolocation", "location"}}

ResolveInit ==
    /\ pc = "call" /\ exit_code = -1 /\ config = None /\ mode = -1
    /\ prep_futures = <<>> /\ prep_collected = {}
    /\ prepared_tasks = <<>> /\ prep_failed_tasks = <<>>
    /\ now = 0 /\ target_datetime = 0 /\ wait_seconds = 0 /\ clock = 0
    /\ interrupted = FALSE
    /\ sub_futures = <<>> /\ sub_collected = {}
    /\ posts = [d \in 1..7 |-> 0]
    /\ success_count = 0 /\ fail_count = 0
    /\ successful_day_names = <<>> /\ failed_day_names = <<>>
    /\ summary_data = None /\ notified = 0
    /\ call \in {ResolveCall(day, m, env) :
                    day \in ResolveDays, m \in {0, 1}, env \in ResolveCallEnvs}
    /\ ret = None

ResolveUnchanged ==
    UNCHANGED <<exit_code, config, mode, prepVars, schedVars, subVars, endVars>>

\* "return None" at step at of the resolver.
ResolveReturnNone(c) ==
    /\ call' = [c EXCEPT !.at = "returned"]
    /\ ret' = None
    /\ pc' = "returned"

\* The range test on the day selector.
ResolveCheckRange ==
    /\ pc = "call" /\ call.at = "range"
    /\ IF ~day_in_range(call.day_number)
       THEN ResolveReturnNone(call)
       ELSE call' = [call EXCEPT !.at = "file"] /\ UNCHANGED <<pc, ret>>
    /\ ResolveUnchanged

\* The reading of the URL list file.
ResolveReadList ==
    /\ pc = "call" /\ call.at = "file"
    /\ LET c == [call EXCEPT !.reads = @ + 1]
       IN IF ~c.env.file_ok
          THEN ResolveReturnNone(c)
          ELSE call' = [c EXCEPT !.at = "index"] /\ UNCHANGED <<pc, ret>>
    /\ ResolveUnchanged

\* The test of the day index against the number of listed URLs.
ResolveCheckIndex ==
    /\ pc = "call" /\ call.at = "index"
    /\ IF call.day_number > call.env.n_urls
       THEN ResolveReturnNone(call)
       ELSE call' = [call EXCEPT !.at = "get"] /\ UNCHANGED <<pc, ret>>
    /\ ResolveUnchanged

\* The GET of the short URL without following the redirect, and what is
\* made of its answer.
ResolveGet ==
    /\ pc = "call" /\ call.at = "get"
    /\ call' = after_get(call)
    /\ IF call'.at = "returned"
       THEN /\ pc' = "returned"
            /\ ret' = (IF call.env.get = "location"
                       THEN FormUrl("viewform", call.day_number, call.mode)
                       ELSE None)
       ELSE UNCHANGED <<pc, ret>>
    /\ ResolveUnchanged

ResolveNext ==
    \/ ResolveCheckRange
    \/ ResolveReadList
    \/ ResolveCheckIndex
    \/ ResolveGet

ResolveSpec == ResolveInit /\ [][ResolveNext]_vars

\* ------------------------------------------ the preparer, called on its own

\* The sequence s in reverse order.
Reverse(seq) == [j \in 1..Len(seq) |-> seq[Len(seq) + 1 - j]]

\* An invocation that keeps state between calls: after an earlier
\* invocation has returned, the payload comes out in the reverse order.
mut_prepare_call(c) ==
    LET r == prepare_submission_data(c.day_number, c.mode, c.name, c.reason, c.net)
    IN IF r.status = "prepared" /\ c.at = "returned"
       THEN [r EXCEPT !.payload = Reverse(@)]
       ELSE r

\* One invocation of prepare_submission_data with the arguments and the
\* network answers of the call c.
prepare_call(c) == prepare_submission_data(c.day_number, c.mode, c.name, c.reason, c.net)

\* resolve_short_url reaches its GET: the day is in range, the list was
\* read and holds a URL for the day.
reaches_get(day_number, env) ==
    day_in_range(day_number) /\ env.file_ok /\ ~(day_number > env.n_urls)

\* A preparer that goes on to field discovery without a token.
mut_token_found(token) == token.kind # "neterror"

\* Step 2 of the preparer got a token: the page was fetched and holds one.
token_found(token) == token.kind # "neterror" /\ token.fbzx # None

\* "if not name_entry or not option_entry or (day_number >= 6 and not
\* reason_entry)".
ids_missing(day_number, ids) ==
    ids.name_entry = None \/ ids.option_entry = None
    \/ (day_number >= 6 /\ ids.reason_entry = None)

\* A call of prepare_submission_data at its first step: log lists the GETs
\* issued so far.
PrepCall(day, m, name, reason, net) ==
    [status |-> "call", fn |-> "prepare_submission_data",
     day_number |-> day, mode |-> m, name |-> name, reason |-> reason, net |-> net,
     at |-> "resolve", log |-> <<>>, second |-> None]

\* The answers to the three network steps of a preparation called on its
\* own: those of the runs, and every well-formed question list behind a
\* resolved URL and a token.
PrepNets(day) ==
    NetAnswers[day]
    \cup {Net(ResolveEnv(TRUE, 7, "location"), GoodToken, page) : page \in FetchPages}

PrepInit ==
    /\ pc = "call" /\ exit_code = -1 /\ config = None /\ mode = -1
    /\ prep_futures = <<>> /\ prep_collected = {}
    /\ prepared_tasks = <<>> /\ prep_failed_tasks = <<>>
    /\ now = 0 /\ target_datetime = 0 /\ wait_seconds = 0 /\ clock = 0
    /\ interrupted = FALSE
    /\ sub_futures = <<>> /\ sub_collected = {}
    /\ posts = [d \in 1..7 |-> 0]
    /\ success_count = 0 /\ fail_count = 0
    /\ successful_day_names = <<>> /\ failed_day_names = <<>>
    /\ summary_data = None /\ notified = 0
    /\ call \in UNION {{PrepCall(day, m, "N", reason, net) :
                          m \in {0, 1},
                          reason \in {None, ReasonText(0, 0), ReasonText(15, 0)},
                          net \in PrepNets(day)} : day \in {1, 5, 6, 7}}
    /\ ret = None

PrepUnchanged ==
    UNCHANGED <<exit_code, config, mode, prepVars, schedVars, subVars, endVars>>

\* The function is left at the step of c, by a return or by the exception
\* of field discovery: the result is that of the invocation.
PrepLeave(c) ==
    /\ call' = [c EXCEPT !.at = "returned"]
    /\ ret' = prepare_call(c)
    /\ pc' = "returned"

\* Step 1: the resolver.
PrepResolve ==
    /\ pc = "call" /\ call.fn = "prepare_submission_data" /\ call.at = "resolve"
    /\ LET c == [call EXCEPT !.log = IF reaches_get(call.day_number, call.net.resolve)
                                     THEN Append(@, "short_url") ELSE @]
       IN IF resolve_short_url(c.day_number, c.mode, c.net.resolve) = None
          THEN PrepLeave(c)
          ELSE call' = [c EXCEPT !.at = "token"] /\ UNCHANGED <<pc, ret>>
    /\ PrepUnchanged

\* Step 2: the GET of the view page and the search for the token.
PrepToken ==
    /\ pc = "call" /\ call.fn = "prepare_submission_data" /\ call.at = "token"
    /\ LET c == [call EXCEPT !.log = Append(@, "token")]
       IN IF ~token_found(c.net.token)
          THEN PrepLeave(c)
          ELSE call' = [c EXCEPT !.at = "discover"] /\ UNCHANGED <<pc, ret>>
    /\ PrepUnchanged

\* Step 3: field discovery, with its one GET, and the test on the
\* identifiers.
PrepDiscover ==
    /\ pc = "call" /\ call.fn = "prepare_submission_data" /\ call.at = "discover"
    /\ LET c == [call EXCEPT !.log = Append(@, "fields")]
           ids == fetch_form_entry_ids_for_day(
                      resolve_short_url(c.day_number, c.mode, c.net.resolve),
                      c.day_number, c.net.page)
       IN IF IsRaised(ids) \/ ids_missing(c.day_number, ids)
          THEN PrepLeave(c)
          ELSE call' = [c EXCEPT !.at = "assemble"] /\ UNCHANGED <<pc, ret>>
    /\ PrepUnchanged

\* Step 4: the payload and the descriptor.
PrepAssemble ==
    /\ pc = "call" /\ call.fn = "prepare_submission_data" /\ call.at = "assemble"
    /\ PrepLeave(call)
    /\ PrepUnchanged

\* A second invocation with the same arguments under the same answers.
PrepAgain ==
    /\ pc = "returned" /\ call.fn = "prepare_submission_data" /\ call.at = "returned"
    /\ call' = [call EXCEPT !.at = "again", !.second = prepare_call(call)]
    /\ UNCHANGED <<pc, ret>>
    /\ PrepUnchanged

PrepNext ==
    \/ PrepResolve
    \/ PrepToken
    \/ PrepDiscover
    \/ PrepAssemble
    \/ PrepAgain

PrepSpec == PrepInit /\ [][PrepNext]_vars

\* -------------------------------------- the sleep interval, taken on its own

\* Remaining times in milliseconds, around the limits of the bands.
Remainders ==
    {1, 10, 11, 499, 500, 501, 510, 4999, 5000, 5001, 59999, 60000, 60001, 61000, 3600000}

SleepCall(r1, r2) == [status |-> "call", fn |-> "sleep_interval", r1 |-> r1, r2 |-> r2]

\* Two iterations of the wait loop see the remaining times r1 and r2.
SleepInit ==
    /\ pc = "call" /\ exit_code = -1 /\ config = None /\ mode = -1
    /\ prep_futures = <<>> /\ prep_collected = {}
    /\ prepared_tasks = <<>> /\ prep_failed_tasks = <<>>
    /\ now = 0 /\ target_datetime = 0 /\ wait_seconds = 0 /\ clock = 0
    /\ interrupted = FALSE
    /\ sub_futures = <<>> /\ sub_collected = {}
    /\ posts = [d \in 1..7 |-> 0]
    /\ success_count = 0 /\ fail_count = 0
    /\ successful_day_names = <<>> /\ failed_day_names = <<>>
    /\ summary_data = None /\ notified = 0
    /\ call \in {SleepCall(r1, r2) : r1 \in Remainders, r2 \in Remainders}
    /\ ret = None

\* Each iteration chooses its sleep and whether it leaves the loop.
SleepChoose ==
    /\ pc = "call" /\ call.fn = "sleep_interval"
    /\ ret' = [status |-> "sleeps",
               d1 |-> sleep_interval(call.r1), exit1 |-> final_band(call.r1),
               d2 |-> sleep_interval(call.r2), exit2 |-> final_band(call.r2)]
    /\ pc' = "returned"
    /\ UNCHANGED <<exit_code, config, mode, prepVars, schedVars, subVars, endVars, call>>

SleepSpec == SleepInit /\ [][SleepChoose]_vars

\* ------------------------------------------- the scheduler, with time passing

\* The sleeps return and the function goes on: the call does not stop
\* while a step of it is possible.
SchedProgress ==
    \/ \E t \in SchedInstants : WaitStart(t)
    \/ WaitIter
    \/ WaitLoopExit

FairSchedSpec == SchedSpec /\ WF_vars(SchedProgress)

\* ------------------------------------------------------------------ claims

Terminated == pc \in {"done", "exit", "crashed"}

NoPrepRaised == \A i \in 1..Len(prep_futures) : ~IsRaised(prep_futures[i])

PostCount == posts[1] + posts[2] + posts[3] + posts[4] + posts[5] + posts[6] + posts[7]

Elems(seq) == {seq[j] : j \in 1..Len(seq)}

SubmissionFailed(k) ==
    sub_futures[k].status = "raised"
    \/ (sub_futures[k].status = "outcome" /\ ~sub_futures[k].success)

\* C1 (as claimed): with the configuration accepted and a mode chosen, every
\* run that is not cancelled during the wait, and in which every preparation
\* returned (prepared or failed), ends normally: summary handed to the
\* notification sink, exit code 0.
C1_EveryRunReachesDone ==
    (Terminated /\ mode # -1 /\ ~interrupted /\ NoPrepRaised)
        => (pc = "done" /\ exit_code = 0 /\ notified = 1)

\* C2 (as claimed): no error of a preparation leaves the preparation task:
\* no preparation future holds an exception and the main thread never
\* unwinds out of the preparation loop.
C2_PrepErrorsStayInTask == NoPrepRaised /\ pc # "prep_unwind"

\* C3 (as claimed): for every HTTP response, success is returned exactly
\* when the body holds both phrases, whatever the status code.
C3_SuccessIffBothPhrases ==
    (pc = "returned" /\ call.resp.kind = "response")
        => (ret.success <=> (call.resp.has_message /\ call.resp.has_link))

\* C3 (amended): for every HTTP response, execute_submission returns the day
\* of the descriptor with success exactly when the status code is no error
\* status (not 4xx or 5xx) and the body holds both phrases.
C3_SuccessIffBothPhrasesAndNoHttpError ==
    (pc = "returned" /\ call.resp.kind = "response")
        => ret = Outcome(call.submission_data.day_number,
                         /\ (call.resp.status_code < 400 \/ call.resp.status_code > 599)
                         /\ call.resp.has_message
                         /\ call.resp.has_link)

\* C3 witness: a 500 response whose body holds both phrases was classified
\* as a failure.
C3_Witness ==
    /\ pc = "returned"
    /\ call.resp.kind = "response"
    /\ call.resp.status_code = 500
    /\ call.resp.has_message /\ call.resp.has_link
    /\ ret.status = "outcome" /\ ~ret.success

\* The Wednesday targets of the weeks the instants can reach.
WedTargets == {w * WeekMs + 2 * DayMs + TargetTod : w \in 0..2}

\* The first Wednesday 13:59:59.750 strictly later than t.
NextWedTarget(t) ==
    CHOOSE x \in WedTargets : x > t /\ \A y \in WedTargets : y > t => x <= y

SchedulerCalled == pc # "sched_entry"

\* A Wednesday from 13:59:59.750 up to, not including, 14:00:00.
DueWindow(t) == (t \div DayMs) % 7 = 2 /\ t % DayMs >= TargetTod /\ t % DayMs < RollTod

\* C4 (as claimed): the target is the next Wednesday 13:59:59.750 strictly
\* later than the instant of the call, and at most 7 days away.
C4_TargetStrictlyFuture ==
    SchedulerCalled =>
        /\ target_datetime = NextWedTarget(now)
        /\ target_datetime > now
        /\ target_datetime - now <= WeekMs

\* C4 (amended): the target is at most 7 days away; called on a Wednesday
\* from 13:59:59.750 up to 14:00:00 it is that day's 13:59:59.750, not later
\* than the call, and the function returns at once; called at any other
\* instant it is the next Wednesday 13:59:59.750 strictly later than the call.
C4_TargetNextWednesdayOrDue ==
    SchedulerCalled =>
        /\ target_datetime - now <= WeekMs
        /\ IF DueWindow(now)
           THEN /\ target_datetime = (now \div DayMs) * DayMs + TargetTod
                /\ target_datetime <= now
                /\ pc # "waiting"
           ELSE /\ target_datetime = NextWedTarget(now)
                /\ target_datetime > now

\* C4 witness: called on a Wednesday at 13:59:59.751, the scheduler returned
\* with a target that is not in the future.
C4_Witness ==
    /\ pc = "submit_entry"
    /\ now = 2 * DayMs + TargetTod + 1
    /\ target_datetime < now

\* C5: once a KeyboardInterrupt was delivered during the wait, the run has
\* ended with no POST issued, no summary built and no notification.
C5_InterruptStopsRun ==
    interrupted => (pc = "exit" /\ PostCount = 0 /\ summary_data = None /\ notified = 0)

\* C5 witness: a run with a prepared descriptor was interrupted in the wait.
C5_Witness == interrupted /\ pc = "exit" /\ Len(prepared_tasks) > 0 /\ wait_seconds > 0

PreparedEntries(d) ==
    {i \in 1..Len(prep_futures) : prep_futures[i].status = "prepared" /\ config.days[i] = d}

\* C7 (as claimed): in a run that ended without being cancelled, every day
\* entry whose preparation did not end prepared has a prep_failed record and
\* no POST, and every prepared entry has its POST.
C7_FailedDayRecordedSiblingsSubmitted ==
    (pc \in {"done", "crashed"} /\ mode # -1) =>
        /\ \A i \in 1..Len(prep_futures) :
              prep_futures[i].status # "prepared"
                  => PrepFailed(config.days[i]) \in Elems(prep_failed_tasks)
        /\ \A d \in 1..7 : posts[d] = Cardinality(PreparedEntries(d))

\* C8: from the start of the submission phase the run reaches the summary
\* with every descriptor executed and collected, one POST and one outcome
\* each, whatever the outcomes were.
C8_EveryDescriptorExecutedOnce ==
    (pc = "submitting") ~>
        (/\ pc = "summarizing"
         /\ \A k \in 1..Len(prepared_tasks) : sub_futures[k] # Pending
         /\ sub_collected = 1..Len(prepared_tasks)
         /\ PostCount = Len(prepared_tasks)
         /\ success_count + fail_count = Len(prepared_tasks) + Len(prep_failed_tasks))

\* C8 witness: the summary is reached after one submission raised an
\* unexpected exception and another succeeded.
C8_Witness ==
    /\ pc = "summarizing"
    /\ \E k1, k2 \in 1..Len(sub_futures) :
          /\ sub_futures[k1].status = "raised"
          /\ sub_futures[k2].status = "outcome" /\ sub_futures[k2].success

\* C9 (as claimed): the failure list of the summary holds a prep_failed
\* record for every day that failed preparation and a submission_failed
\* record for every day whose submission failed, and all_success is true
\* exactly when there is no failure of either kind, that is when the list
\* is empty.
C9_FailureListComplete ==
    (pc \in {"notifying", "done"}) =>
        LET ft == summary_data.failed_tasks
            no_failure == Len(prep_failed_tasks) = 0
                          /\ \A k \in 1..Len(sub_futures) : ~SubmissionFailed(k)
        IN /\ \A j \in 1..Len(prep_failed_tasks) :
                 FailedTask(prep_failed_tasks[j].day_name, "prep_failed") \in Elems(ft)
           /\ \A k \in 1..Len(sub_futures) :
                 SubmissionFailed(k)
                     => FailedTask(prepared_tasks[k].day_name, "submission_failed") \in Elems(ft)
           /\ summary_data.all_success <=> no_failure
           /\ summary_data.all_success <=> (ft = <<>>)

\* C10 (as claimed): at most one POST is issued for each day number.
C10_OnePostPerDay == \A d \in 1..7 : posts[d] <= 1

\* A page whose embedded structure holds a question list in which every
\* record has a label text and an identifier.
WellFormedPage(page) ==
    /\ page.kind = "json" /\ page.top = "list"
    /\ \A j \in 1..Len(page.questions) :
          page.questions[j].entry > 0 /\ page.questions[j].text # "null"

Matching(questions, kw) == {j \in 1..Len(questions) : Contains(kw, questions[j].text)}

\* The identifier of the first question record, in document order, whose
\* label holds the keyword; None when no label holds it.
FirstQuestion(questions, kw) ==
    IF Matching(questions, kw) = {} THEN None
    ELSE Entry(questions[CHOOSE j \in Matching(questions, kw) :
                            \A i \in Matching(questions, kw) : j <= i].entry)

FetchReturned == pc = "returned" /\ call.fn = "fetch_form_entry_ids_for_day"

\* C11 (as claimed): for every well-formed question list, records with equal
\* label texts included, each field looked up gets the identifier of the
\* first record in document order whose label holds the field's keyword.
C11_FirstMatchInDocumentOrder ==
    (FetchReturned /\ WellFormedPage(call.page)) =>
        /\ ret.status = "entries"
        /\ ret.name_entry = FirstQuestion(call.page.questions, "name")
        /\ ret.option_entry = FirstQuestion(call.page.questions, "option")
        /\ call.day_number >= 6
              => ret.reason_entry = FirstQuestion(call.page.questions, "reason")

\* The failures of the claim's list: a network error, a page without the
\* embedded structure, a JSON parse error, a missing or null level on the
\* path to the question list or to the identifier of a question.
SoftFailureCase(page) ==
    \/ page.kind \in {"neterror", "nostruct", "badjson"}
    \/ page.kind = "json" /\ page.top \in {"null", "short"}
    \/ /\ page.kind = "json" /\ page.top = "list"
       /\ \E j \in 1..Len(page.questions) : page.questions[j].entry \in {-1, -2}

\* C12 (as claimed): on each of these failures the function returns the
\* three absents and raises nothing.
C12_DiscoveryFailsSoftly ==
    (FetchReturned /\ SoftFailureCase(call.page)) => ret = Entries(None, None, None)

ResolveReturned == pc = "returned" /\ call.fn = "resolve_short_url"

\* The failures of the claim's list for a call of the resolver.
ResolveFailureCase(c) ==
    \/ c.day_number < 1 \/ c.day_number > 7
    \/ ~c.env.file_ok
    \/ c.day_number > c.env.n_urls
    \/ c.env.get \in {"neterror", "nolocation"}

C14_OutOfRangeNoNetwork ==
    (call.status = "call" /\ call.fn = "resolve_short_url"
     /\ (call.day_number < 1 \/ call.day_number > 7)) =>
        /\ call.gets = 0 /\ call.reads = 0
        /\ call.at \in {"range", "returned"}
        /\ pc = "returned" => ret = None

\* C14 witness: the call for day 0, with a readable list of seven URLs and a
\* server that would redirect, has returned None.
C14_Witness ==
    /\ ResolveReturned
    /\ call.day_number = 0
    /\ call.env = ResolveEnv(TRUE, 7, "location")
    /\ ret = None /\ call.gets = 0 /\ call.reads = 0

\* A reason of a selected Saturday or Sunday with fewer than 15 characters
\* that are not blanks.
ShortReason(c) ==
    \/ InList(6, c.days) /\ c.reason_sat.chars < 15
    \/ InList(7, c.days) /\ c.reason_sun.chars < 15

TransportError(resp) ==
    \/ resp.kind = "request_exception"
    \/ resp.kind = "response" /\ resp.status_code >= 400 /\ resp.status_code <= 599

\* C16: a call of execute_submission whose POST met a transport error has
\* returned the day of its descriptor with False, after exactly one POST.
C16_TransportErrorsMappedToFailure ==
    (pc = "returned" /\ call.fn = "execute_submission" /\ TransportError(call.resp)) =>
        /\ ret = Outcome(call.submission_data.day_number, FALSE)
        /\ posts[call.submission_data.day_number] = 1
        /\ PostCount = 1

\* C16 witness: a call whose POST raised an error of requests returned
\* failure for a Saturday descriptor.
C16_Witness ==
    /\ pc = "returned" /\ call.fn = "execute_submission"
    /\ call.resp.kind = "request_exception"
    /\ call.submission_data.day_number = 6
    /\ ret = Outcome(6, FALSE)
    /\ PostCount = 1

\* The notification sink failed: a setting is missing, the recipient list
\* is empty, or the SMTP session of some recipient failed.
SinkFailed(mail) ==
    \/ ~mail.sender \/ ~mail.key \/ mail.rcpt # "list"
    \/ \E j \in 1..Len(mail.smtp) : mail.smtp[j] # "ok"

\* C17: once send_summary_email was called the run is done with exit code
\* 0 whatever the sink did, and the call returned a boolean that is False
\* exactly when the sink failed.
C17_SinkFailureIsFalseNotException ==
    notified > 0 =>
        /\ pc = "done" /\ exit_code = 0
        /\ ret.status = "bool"
        /\ ret.value <=> ~SinkFailed(call)

\* C17 witness: of two recipients one SMTP session failed; the call
\* returned False and the run is done with exit code 0.
C17_Witness ==
    /\ pc = "done" /\ exit_code = 0
    /\ call.fn = "send_summary_email"
    /\ call.smtp = <<"ok", "error">>
    /\ ret = Bool(FALSE)

\* wait_for_scheduled_time was called: it has computed a target.
SchedulerRan == target_datetime # 0

\* C18: the main thread is in the scheduler only in live mode, and a run
\* that is past the preparation phase has called the scheduler exactly
\* when its mode is 1.
C18_WaitOnlyInLiveMode ==
    /\ (pc \in {"sched_entry", "waiting"} \/ SchedulerRan \/ interrupted) => mode = 1
    /\ pc \in {"submit_entry", "submitting", "summarizing", "notifying", "done"}
          => (mode = 1 <=> SchedulerRan)

\* C18 witness: a test run with a prepared descriptor is at the start of
\* the submission phase and the scheduler was not called.
C18_Witness ==
    /\ mode = 0 /\ pc = "submit_entry"
    /\ Len(prepared_tasks) > 0
    /\ ~SchedulerRan

\* C19: for a well-formed question list each field is looked up on its own:
\* the name and the option field are found exactly when some label holds
\* their keyword, and the reason field exactly when the day is 6 or 7 and
\* some label holds its keyword.
C19_FieldsDiscoveredIndependently ==
    (FetchReturned /\ WellFormedPage(call.page)) =>
        /\ ret.status = "entries"
        /\ ret.name_entry # None <=> Matching(call.page.questions, "name") # {}
        /\ ret.option_entry # None <=> Matching(call.page.questions, "option") # {}
        /\ ret.reason_entry # None
              <=> (call.day_number >= 6 /\ Matching(call.page.questions, "reason") # {})

\* C19 witness: for day 5, a page with a reason question and a name
\* question but no option question gave the name field only.
C19_Witness ==
    /\ FetchReturned
    /\ call.day_number = 5
    /\ call.page = JsonPage("list", QuestionList(<<"reason", "name">>))
    /\ ret = Entries(Entry(2), None, None)

\* The day entries whose preparation returned None, the descriptors whose
\* submission succeeded, and those whose submission failed.
PrepFailedEntries == {i \in 1..Len(prep_futures) : prep_futures[i] = None}

SubmitOk == {k \in 1..Len(sub_futures) : ~SubmissionFailed(k)}

SubmitBad == {k \in 1..Len(sub_futures) : SubmissionFailed(k)}

\* C20: the aggregates of the summary are functions of the outcomes of the
\* tasks alone, whatever the order in which the futures were collected:
\* the counts, the all_success flag, the set of successful names and the
\* set of failure records.
C20_AggregatesOrderIndependent ==
    (pc \in {"notifying", "done"}) =>
        LET prep_names == {DAY_NAMES(config.days[i]) : i \in PrepFailedEntries}
            bad_names == {prepared_tasks[k].day_name : k \in SubmitBad}
        IN /\ success_count = Cardinality(SubmitOk)
           /\ fail_count = Cardinality(SubmitBad) + Cardinality(PrepFailedEntries)
           /\ summary_data.all_success <=> (SubmitBad = {} /\ PrepFailedEntries = {})
           /\ Elems(summary_data.successful_day_names)
                 = {prepared_tasks[k].day_name : k \in SubmitOk}
           /\ Len(summary_data.successful_day_names) = Cardinality(SubmitOk)
           /\ Elems(summary_data.failed_tasks)
                 = {FailedTask(n, "prep_failed") : n \in prep_names}
                   \cup {FailedTask(n, "submission_failed") : n \in bad_names \ prep_names}

\* C20 witness: of the days 6 and 7 the later one was collected first in
\* the submission phase, and both submissions failed.
C20_Witness ==
    /\ pc = "done"
    /\ config.days = <<6, 7>>
    /\ failed_day_names = <<"Sun", "Sat">>
    /\ summary_data.failed_tasks
          = <<FailedTask("Sun", "submission_failed"), FailedTask("Sat", "submission_failed")>>

PrepReturned == pc = "returned" /\ call.fn = "prepare_submission_data"

DiscoveredIds(c) ==
    fetch_form_entry_ids_for_day(resolve_short_url(c.day_number, c.mode, c.net.resolve),
                                 c.day_number, c.net.page)

\* The value the payload d holds under the key k.
ValueAt(d, k) == d[CHOOSE j \in 1..Len(d) : d[j][1] = k][2]

Keys(d) == {d[j][1] : j \in 1..Len(d)}

\* C22 (as claimed): the payload of a prepared descriptor maps the token
\* key to the token, the name identifier to the name, the option identifier
\* to the leave option, and the reason identifier to the reason exactly
\* when the day is 6 or 7 and the reason is not empty; otherwise it holds
\* the three other keys only. Identifiers that coincide are included.
C22_PayloadMapsEveryField ==
    (PrepReturned /\ ret.status = "prepared") =>
        LET ids == DiscoveredIds(call)
            with_reason == call.day_number >= 6 /\ Truthy(call.reason)
        IN /\ DictHas(ret.payload, [status |-> "fbzx"])
           /\ ValueAt(ret.payload, [status |-> "fbzx"]) = call.net.token.fbzx
           /\ DictHas(ret.payload, ids.name_entry)
           /\ ValueAt(ret.payload, ids.name_entry) = Str(call.name)
           /\ DictHas(ret.payload, ids.option_entry)
           /\ ValueAt(ret.payload, ids.option_entry) = Str("leave")
           /\ IF with_reason
              THEN /\ DictHas(ret.payload, ids.reason_entry)
                   /\ ValueAt(ret.payload, ids.reason_entry) = call.reason
              ELSE Keys(ret.payload) = {[status |-> "fbzx"], ids.name_entry, ids.option_entry}

\* The call got a URL and a token, and field discovery returned.
DiscoveryReturned(c) ==
    /\ resolve_short_url(c.day_number, c.mode, c.net.resolve) # None
    /\ c.net.token.kind = "html" /\ c.net.token.fbzx # None
    /\ ~IsRaised(DiscoveredIds(c))

\* C23: once field discovery has returned, the preparation gives no
\* descriptor, and the main loop files the day as prep_failed, exactly when
\* the name or the option identifier is absent or the day is 6 or 7 and
\* the reason identifier is absent; an absent reason identifier alone
\* never fails a day from 1 to 5.
C23_MissingIdentifierFailsPreparation ==
    (PrepReturned /\ DiscoveryReturned(call)) =>
        LET ids == DiscoveredIds(call)
            missing == \/ ids.name_entry = None
                       \/ ids.option_entry = None
                       \/ call.day_number >= 6 /\ ids.reason_entry = None
        IN IF missing
           THEN ret = None /\ classify(ret) = "prep_failed"
           ELSE ret.status = "prepared" /\ classify(ret) = "prepared"

\* C23 witness: day 5 was prepared from a page without a reason question.
C23_Witness ==
    /\ PrepReturned
    /\ call.day_number = 5
    /\ call.net.page = JsonPage("list", QuestionList(<<"name", "option">>))
    /\ ret.status = "prepared"

IsPrefix(a, b) == Len(a) <= Len(b) /\ \A j \in 1..Len(a) : a[j] = b[j]

\* C24: the GETs of a preparation are issued in the order short URL, token
\* page, field discovery, each at most once; the token page is fetched
\* only with a resolved URL and field discovery is requested only with a
\* token; a descriptor is built only after all three.
C24_StepsInOrderShortCircuit ==
    (call.status = "call" /\ call.fn = "prepare_submission_data") =>
        LET resolved == resolve_short_url(call.day_number, call.mode, call.net.resolve) # None
            has_token == call.net.token.kind = "html" /\ call.net.token.fbzx # None
        IN /\ IsPrefix(call.log, <<"short_url", "token", "fields">>)
           /\ InList("token", call.log) => resolved
           /\ InList("fields", call.log) => (resolved /\ has_token)
           /\ call.at \in {"token", "discover", "assemble"} => resolved
           /\ call.at \in {"discover", "assemble"} => has_token
           /\ (pc = "returned" /\ ~resolved) => (ret = None /\ Len(call.log) <= 1)
           /\ (pc = "returned" /\ resolved /\ ~has_token)
                 => (ret = None /\ call.log = <<"short_url", "token">>)
           /\ (pc = "returned" /\ ret.status = "prepared")
                 => call.log = <<"short_url", "token", "fields">>

\* C24 witness: a preparation whose view page held no token returned after
\* two GETs.
C24_Witness ==
    /\ PrepReturned
    /\ call.net.token = [kind |-> "html", fbzx |-> None]
    /\ call.log = <<"short_url", "token">>
    /\ ret = None

\* The reason question of every page the runs draw from has identifier 3.
RunReasonEntry == Entry(3)

\* C25: in a run, the descriptor of day 6 holds the Saturday reason of the
\* configuration under the reason identifier, that of day 7 the Sunday
\* reason, and that of a day from 1 to 5 holds no reason.
C25_ReasonGivenToItsDay ==
    \A i \in 1..Len(prep_futures) :
        prep_futures[i].status = "prepared" =>
            LET d == prep_futures[i] IN
            /\ d.day_number = 6
                  => (DictHas(d.payload, RunReasonEntry)
                      /\ ValueAt(d.payload, RunReasonEntry) = config.reason_sat)
            /\ d.day_number = 7
                  => (DictHas(d.payload, RunReasonEntry)
                      /\ ValueAt(d.payload, RunReasonEntry) = config.reason_sun)
            /\ d.day_number <= 5
                  => \A j \in 1..Len(d.payload) : d.payload[j][2].status # "text"

\* C25 witness: a Sunday descriptor was prepared in a run whose Saturday
\* reason differs from its Sunday reason.
C25_Witness ==
    /\ pc = "submitting"
    /\ config.reason_sat # config.reason_sun
    /\ \E k \in 1..Len(prepared_tasks) :
          /\ prepared_tasks[k].day_number = 7
          /\ ValueAt(prepared_tasks[k].payload, RunReasonEntry) = config.reason_sun

\* C26 (as claimed): from the summary on, the two counts add up to the
\* number of selected day entries, the failure list has fail_count
\* records, and the successful names and the failure records together
\* number the selected day entries.
C26_EveryDayAccountedOnce ==
    (pc \in {"summarizing", "notifying", "done"}) =>
        /\ success_count + fail_count = NumDays
        /\ Len(successful_day_names) = success_count
        /\ pc # "summarizing" =>
              /\ Len(summary_data.failed_tasks) = fail_count
              /\ Len(summary_data.successful_day_names) + Len(summary_data.failed_tasks)
                    = NumDays

SleepReturned == pc = "returned" /\ call.fn = "sleep_interval"

\* The sleep and the exit the claim gives for the remaining time r.
ClaimedSleep(r, d, exit) ==
    /\ r > 60000 => d = 1000
    /\ (r > 5000 /\ r <= 60000) => d = 100
    /\ (r > 500 /\ r <= 5000) => d = 10
    /\ r <= 500 => d = r
    /\ exit <=> r <= 500
    /\ d <= r

\* C27 (as claimed): the sleep is that of the band of r, never longer than
\* r, and of two remaining times the smaller never gets the longer sleep.
C27_SleepNeverGrows ==
    SleepReturned =>
        /\ ClaimedSleep(call.r1, ret.d1, ret.exit1)
        /\ ClaimedSleep(call.r2, ret.d2, ret.exit2)
        /\ call.r1 <= call.r2 => ret.d1 <= ret.d2

\* C27 (amended): the sleep is that of the band of r and never longer than
\* r; of two remaining times above 0.5 s, or of two up to 0.5 s, the
\* smaller never gets the longer sleep.
C27_SleepBandsWithinRemaining ==
    SleepReturned =>
        /\ ClaimedSleep(call.r1, ret.d1, ret.exit1)
        /\ ClaimedSleep(call.r2, ret.d2, ret.exit2)
        /\ (call.r1 <= call.r2 /\ (call.r1 > 500 <=> call.r2 > 500)) => ret.d1 <= ret.d2

\* C27 witness: with 0.5 s left the sleep is 0.5 s, longer than the 10 ms
\* slept with 0.51 s left.
C27_Witness ==
    /\ SleepReturned
    /\ call.r1 = 500 /\ call.r2 = 510
    /\ ret.d1 = 500 /\ ret.d2 = 10

\* C28: a POST is issued, and a submission task exists, only when every
\* preparation task has finished and was collected; the summary exists
\* only when every submission task has finished and was collected.
C28_PhasesSeparatedByBarrier ==
    /\ (PostCount > 0 \/ sub_futures # <<>>)
          => /\ \A i \in 1..Len(prep_futures) : prep_futures[i] # Pending
             /\ prep_collected = 1..Len(prep_futures)
             /\ Len(prepared_tasks) + Len(prep_failed_tasks) = Len(prep_futures)
    /\ (summary_data # None \/ pc \in {"summarizing", "notifying", "done"})
          => /\ \A k \in 1..Len(sub_futures) : sub_futures[k] # Pending
             /\ sub_collected = 1..Len(sub_futures)
             /\ Len(sub_futures) = Len(prepared_tasks)

\* C28 witness: of two day entries one failed preparation and the other
\* has its POST.
C28_Witness ==
    /\ Len(prep_futures) = 2
    /\ Len(prep_failed_tasks) = 1
    /\ PostCount = 1
    /\ pc = "submitting"

\* C29: with time passing, a call of the scheduler returns (or the run is
\* cancelled); a call that finds the target not later than the clock has
\* returned without a sleep, the clock still at the instant of the call.
C29_WaitTerminates ==
    /\ [](SchedulerCalled /\ target_datetime <= now => pc = "submit_entry" /\ clock = now)
    /\ (pc \in {"sched_entry", "waiting"}) ~> (pc \in {"submit_entry", "exit"})

\* C29 witness: a call 61 s before the target has returned with the clock
\* at or past the target.
C29_Witness ==
    /\ pc = "submit_entry"
    /\ target_datetime - now = 61000
    /\ clock >= target_datetime

====
